---- MODULE Spec2Model ----
(***************************************************************************)
(* A model of the application driver of the Rocket game (src/main.rs):     *)
(* the ApplicationState aggregate and the five event-loop callbacks that   *)
(* ggez invokes on it (update, draw, key_down_event, key_up_event,         *)
(* focus_event), together with the core components it drives.  The         *)
(* components live in modules that main.rs only declares (controllers,     *)
(* game_state, view); their operations are modelled from the design        *)
(* document and are marked as such where they are defined.                 *)
(***************************************************************************)
EXTENDS Integers, Sequences, FiniteSets, TLC

(***************************************************************************)
(* Bounds of the model.                                                    *)
(***************************************************************************)
\* the arena is [0, Width] x [0, Height]
Width == 1
Height == 1
\* the largest per-frame time delta, in whole seconds
MaxDelta == 1
\* seconds between two obstacle spawns
SpawnPeriod == 2
\* the most obstacles alive at once
MaxObstacles == 1
\* the most projectiles alive at once
MaxProjectiles == 1
\* the largest score the model follows
MaxScore == 1
\* the most events the buffer holds between two drains
MaxBuf == 3

VARIABLES
    has_focus,          \* ApplicationState.has_focus
    game_state,         \* ApplicationState.game_state
    time_controller,    \* ApplicationState.time_controller
    input_controller,   \* ApplicationState.input_controller
    event_buffer,       \* ApplicationState.event_buffer
    last,               \* history: the callback that ran last and the calls it made
    reset_balance,      \* history: time-controller resets minus game-state resets
    hist                \* history: the inputs of the most recent callbacks

vars == <<has_focus, game_state, time_controller, input_controller,
          event_buffer, last, reset_balance, hist>>

app == <<has_focus, game_state, time_controller, input_controller, event_buffer>>

(***************************************************************************)
(* Data                                                                    *)
(***************************************************************************)
Positions == (0..Width) \X (0..Height)

Deltas == 0..MaxDelta

Keys == {"Left", "Right", "Up", "Down", "Space", "Q"}

Mods == {"NOMOD", "LSHIFT"}

Actions == {"MoveLeft", "MoveRight", "MoveUp", "MoveDown", "Fire"}

Event == {"GameStart", "Collision", "ScoreChange"}

NoMessage == "None"

GameOver == "Game Over"

Min(a, b) == IF a < b THEN a ELSE b

Max(a, b) == IF a > b THEN a ELSE b

\* s without its i-th element
RemoveAt(s, i) == [j \in 1..(Len(s) - 1) |-> IF j < i THEN s[j] ELSE s[j + 1]]

\* the number of occurrences of x in s
RECURSIVE Count(_, _)
Count(s, x) ==
    IF s = <<>> THEN 0
    ELSE (IF Head(s) = x THEN 1 ELSE 0) + Count(Tail(s), x)

\* s is a prefix of t
IsPrefix(s, t) == Len(s) <= Len(t) /\ SubSeq(t, 1, Len(s)) = s

(***************************************************************************)
(* Input controller (module controllers; modelled from the design          *)
(* document, section 4.1): a mapping from logical action to "currently     *)
(* held".                                                                  *)
(***************************************************************************)
\* the logical action a key stands for; "" for an unrecognized key
KeyAction(keycode) ==
    CASE keycode = "Left" -> "MoveLeft"
      [] keycode = "Right" -> "MoveRight"
      [] keycode = "Up" -> "MoveUp"
      [] keycode = "Down" -> "MoveDown"
      [] keycode = "Space" -> "Fire"
      [] OTHER -> ""

InputController_new == [a \in Actions |-> FALSE]

\* unrecognized keys are silently ignored; the modifiers select nothing
key_press(ic, keycode, keymod) ==
    IF KeyAction(keycode) \in Actions
    THEN [ic EXCEPT ![KeyAction(keycode)] = TRUE]
    ELSE ic

key_release(ic, keycode, keymod) ==
    IF KeyAction(keycode) \in Actions
    THEN [ic EXCEPT ![KeyAction(keycode)] = FALSE]
    ELSE ic

\* the snapshot of the active actions at call time
actions(ic) == {a \in Actions : ic[a]}

(***************************************************************************)
(* Game state (module game_state; modelled from the design document,       *)
(* section 3).  Entities are kept in collections with a stable iteration   *)
(* order; rng is the position the random source draws.                     *)
(***************************************************************************)
GameState_new(rng) ==
    [player |-> rng, obstacles |-> <<>>, projectiles |-> <<>>,
     score |-> 0, message |-> NoMessage]

\* reinitializes the entities and clears the message
GameState_reset(gs, rng) == GameState_new(rng)

(***************************************************************************)
(* Time controller (module controllers; modelled from the design           *)
(* document, section 4.2).  Its timer is the time accumulated since the    *)
(* last spawn.                                                             *)
(***************************************************************************)
TimeController_new == [spawn_timer |-> 0]

\* zeroes the accumulated timers; does not touch the game state
TimeController_reset(tc) == [tc EXCEPT !.spawn_timer = 0]

Clamp(v, lo, hi) == Max(lo, Min(v, hi))

\* the motion of the player without the clamping
MovePlayer_unclamped(pos, acts, delta) ==
    LET dx == (IF "MoveRight" \in acts THEN delta ELSE 0)
              - (IF "MoveLeft" \in acts THEN delta ELSE 0)
        dy == (IF "MoveUp" \in acts THEN delta ELSE 0)
              - (IF "MoveDown" \in acts THEN delta ELSE 0)
    IN  <<pos[1] + dx, pos[2] + dy>>

\* step 1 and 2: frame-rate independent motion at unit speed, then clamping
MovePlayer(pos, acts, delta) ==
    LET dx == (IF "MoveRight" \in acts THEN delta ELSE 0)
              - (IF "MoveLeft" \in acts THEN delta ELSE 0)
        dy == (IF "MoveUp" \in acts THEN delta ELSE 0)
              - (IF "MoveDown" \in acts THEN delta ELSE 0)
    IN  <<Clamp(pos[1] + dx, 0, Width), Clamp(pos[2] + dy, 0, Height)>>

\* The time step.  resulting is the sequence of events the step gives rise to:
\* the design document leaves them open ("any resulting events"), so the
\* caller supplies them and they are appended in order.
update_seconds(delta, acts, gs, tc, events, rng, resulting) ==
    LET moved == MovePlayer(gs.player, acts, delta)
        timer == tc.spawn_timer + delta
        due == timer >= SpawnPeriod
        obstacles == IF due /\ Len(gs.obstacles) < MaxObstacles
                     THEN Append(gs.obstacles, rng)
                     ELSE gs.obstacles
        projectiles == IF "Fire" \in acts /\ Len(gs.projectiles) < MaxProjectiles
                       THEN Append(gs.projectiles, moved)
                       ELSE gs.projectiles
    IN  [game_state |-> [gs EXCEPT !.player = moved,
                                   !.obstacles = obstacles,
                                   !.projectiles = projectiles],
         time_controller |-> [tc EXCEPT !.spawn_timer = IF due THEN 0 ELSE timer],
         event_buffer |-> events \o resulting]

(***************************************************************************)
(* Collisions controller (module controllers; modelled from the design     *)
(* document, section 4.3): one pass over the pairs eligible for collision, *)
(* in the iteration order of the collections.                              *)
(***************************************************************************)
Overlap(p, q) == p = q

\* the index of the first obstacle overlapping p, 0 when there is none
FirstHit(obstacles, p) ==
    IF \E j \in 1..Len(obstacles) : Overlap(obstacles[j], p)
    THEN CHOOSE j \in 1..Len(obstacles) :
            /\ Overlap(obstacles[j], p)
            /\ \A k \in 1..(j - 1) : ~Overlap(obstacles[k], p)
    ELSE 0

\* the projectile pass, leaving the obstacle it hit in the collection
RECURSIVE ProjectilePass_keeping_obstacle(_, _, _)
ProjectilePass_keeping_obstacle(i, gs, events) ==
    IF i > Len(gs.projectiles)
    THEN [game_state |-> gs, event_buffer |-> events]
    ELSE LET j == FirstHit(gs.obstacles, gs.projectiles[i])
         IN  IF j = 0
             THEN ProjectilePass_keeping_obstacle(i + 1, gs, events)
             ELSE ProjectilePass_keeping_obstacle(i,
                     [gs EXCEPT !.projectiles = RemoveAt(gs.projectiles, i),
                                !.score = gs.score + 1],
                     events \o <<"Collision", "ScoreChange">>)

\* projectile against obstacle: both are removed, the score changes
RECURSIVE ProjectilePass(_, _, _)
ProjectilePass(i, gs, events) ==
    IF i > Len(gs.projectiles)
    THEN [game_state |-> gs, event_buffer |-> events]
    ELSE LET j == FirstHit(gs.obstacles, gs.projectiles[i])
         IN  IF j = 0
             THEN ProjectilePass(i + 1, gs, events)
             ELSE ProjectilePass(i,
                     [gs EXCEPT !.projectiles = RemoveAt(gs.projectiles, i),
                                !.obstacles = RemoveAt(gs.obstacles, j),
                                !.score = gs.score + 1],
                     events \o <<"Collision", "ScoreChange">>)

\* player against obstacle: the obstacle is removed, the collision is terminal
RECURSIVE PlayerPass(_, _, _)
PlayerPass(j, gs, events) ==
    IF j > Len(gs.obstacles)
    THEN [game_state |-> gs, event_buffer |-> events]
    ELSE IF Overlap(gs.obstacles[j], gs.player)
         THEN PlayerPass(j,
                 [gs EXCEPT !.obstacles = RemoveAt(gs.obstacles, j),
                            !.message = GameOver],
                 events \o <<"Collision">>)
         ELSE PlayerPass(j + 1, gs, events)

handle_collisions(gs, tc, events) ==
    LET shot == ProjectilePass(1, gs, events)
        hit == PlayerPass(1, shot.game_state, shot.event_buffer)
    IN  [game_state |-> hit.game_state,
         time_controller |-> tc,
         event_buffer |-> hit.event_buffer]

(***************************************************************************)
(* Presentation layer (module view; modelled from the design document,     *)
(* section 4.4): play_sounds iterates over the buffer and clears it.       *)
(***************************************************************************)
play_sounds(events) == [played |-> events, event_buffer |-> <<>>]

(***************************************************************************)
(* The application driver (src/main.rs).  Every callback is one atomic     *)
(* step: the event loop is single-threaded and runs each callback to       *)
(* completion.  The history variable last records the callback and, in     *)
(* order, the component operations it invoked, the events it appended      *)
(* (each with the component that appended it) and the events it handed to  *)
(* the presentation layer.                                                 *)
(***************************************************************************)
Tagged(source, events) == [i \in 1..Len(events) |-> <<source, events[i]>>]

Untagged(tagged) == [i \in 1..Len(tagged) |-> tagged[i][2]]

Call(op, calls, appended, played) ==
    [op |-> op, calls |-> calls, appended |-> appended, played |-> played]

\* the sequences of events one time step can give rise to (the design document
\* names GameStart as the example)
Resulting == {<<>>, <<"GameStart">>}

\* the keys pressed and released while the event loop runs
DriverKeys == {"Space", "Q"}

\* the positions the random source yields while the event loop runs: two
\* opposite corners of the arena
Placements == {<<0, 0>>, <<Width, Height>>}

\* the random source is read only by a spawn and by a reset: the draws that
\* matter when used is false are one and the same
Draws(used) == IF used THEN Placements ELSE {<<0, 0>>}

\* the modifiers and the auto-repeat flag a key event carries
KeyFlags == {<<"NOMOD", FALSE>>, <<"LSHIFT", TRUE>>}

\* new, announcing the first game as reset announces the later ones
new_announcing(rng) ==
    /\ has_focus = TRUE
    /\ game_state = GameState_new(rng)
    /\ time_controller = TimeController_new
    /\ input_controller = InputController_new
    /\ event_buffer = <<"GameStart">>
    /\ last = Call("new", <<>>, <<>>, <<>>)
    /\ reset_balance = 0

\* ApplicationState::new
new(rng) ==
    /\ has_focus = TRUE
    /\ game_state = GameState_new(rng)
    /\ time_controller = TimeController_new
    /\ input_controller = InputController_new
    /\ event_buffer = <<>>
    /\ last = Call("new", <<>>, <<>>, <<>>)
    /\ reset_balance = 0

\* reset, forgetting to announce the new game
reset_without_event(tc, gs, events, rng) ==
    [time_controller |-> TimeController_reset(tc),
     game_state |-> GameState_reset(gs, rng),
     event_buffer |-> events,
     calls |-> <<"time_controller.reset", "game_state.reset">>]

\* reset, forgetting the game state
reset_without_game_state(tc, gs, events, rng) ==
    [time_controller |-> TimeController_reset(tc),
     game_state |-> [gs EXCEPT !.message = NoMessage],
     event_buffer |-> Append(events, "GameStart"),
     calls |-> <<"time_controller.reset">>]

\* reset, forgetting the time controller
reset_without_time_controller(tc, gs, events, rng) ==
    [time_controller |-> tc,
     game_state |-> GameState_reset(gs, rng),
     event_buffer |-> Append(events, "GameStart"),
     calls |-> <<"game_state.reset">>]

\* reset, starting the new game with a fresh event buffer
reset_clearing_events(tc, gs, events, rng) ==
    [time_controller |-> TimeController_reset(tc),
     game_state |-> GameState_reset(gs, rng),
     event_buffer |-> <<"GameStart">>,
     calls |-> <<"time_controller.reset", "game_state.reset">>]

\* ApplicationState::reset
reset(tc, gs, events, rng) ==
    [time_controller |-> TimeController_reset(tc),
     game_state |-> GameState_reset(gs, rng),
     event_buffer |-> Append(events, "GameStart"),
     calls |-> <<"time_controller.reset", "game_state.reset">>]

\* update, without the focus check
update_ungated(delta, rng, resulting) ==
    LET acts == actions(input_controller)
        stepped == update_seconds(delta, acts, game_state, time_controller,
                                  event_buffer, rng, resulting)
        collided == handle_collisions(stepped.game_state,
                                      stepped.time_controller,
                                      stepped.event_buffer)
    IN  /\ Len(collided.event_buffer) <= MaxBuf
        /\ collided.game_state.score <= MaxScore
        /\ game_state' = collided.game_state
        /\ time_controller' = collided.time_controller
        /\ event_buffer' = collided.event_buffer
        /\ last' = Call("update",
               <<"actions", "update_seconds", "handle_collisions">>,
               Tagged("time", SubSeq(stepped.event_buffer,
                          Len(event_buffer) + 1, Len(stepped.event_buffer)))
               \o Tagged("collisions", SubSeq(collided.event_buffer,
                          Len(stepped.event_buffer) + 1,
                          Len(collided.event_buffer))),
               <<>>)
        /\ UNCHANGED <<has_focus, input_controller, reset_balance>>

\* update, with the collision pass ahead of the time step
update_collisions_first(delta, rng, resulting) ==
    IF ~has_focus
    THEN /\ UNCHANGED <<app, reset_balance>>
         /\ last' = Call("update", <<>>, <<>>, <<>>)
    ELSE LET acts == actions(input_controller)
             collided == handle_collisions(game_state, time_controller,
                                           event_buffer)
             stepped == update_seconds(delta, acts, collided.game_state,
                                       collided.time_controller,
                                       collided.event_buffer, rng, resulting)
         IN  /\ Len(stepped.event_buffer) <= MaxBuf
             /\ stepped.game_state.score <= MaxScore
             /\ game_state' = stepped.game_state
             /\ time_controller' = stepped.time_controller
             /\ event_buffer' = stepped.event_buffer
             /\ last' = Call("update",
                    <<"actions", "handle_collisions", "update_seconds">>,
                    Tagged("collisions", SubSeq(collided.event_buffer,
                               Len(event_buffer) + 1, Len(collided.event_buffer)))
                    \o Tagged("time", SubSeq(stepped.event_buffer,
                               Len(collided.event_buffer) + 1,
                               Len(stepped.event_buffer))),
                    <<>>)
             /\ UNCHANGED <<has_focus, input_controller, reset_balance>>

\* EventHandler::update
update(delta, rng, resulting) ==
    IF ~has_focus
    THEN /\ UNCHANGED <<app, reset_balance>>
         /\ last' = Call("update", <<>>, <<>>, <<>>)
    ELSE LET acts == actions(input_controller)
             stepped == update_seconds(delta, acts, game_state, time_controller,
                                       event_buffer, rng, resulting)
             collided == handle_collisions(stepped.game_state,
                                           stepped.time_controller,
                                           stepped.event_buffer)
         IN  /\ Len(collided.event_buffer) <= MaxBuf
             /\ collided.game_state.score <= MaxScore
             /\ game_state' = collided.game_state
             /\ time_controller' = collided.time_controller
             /\ event_buffer' = collided.event_buffer
             /\ last' = Call("update",
                    <<"actions", "update_seconds", "handle_collisions">>,
                    Tagged("time", SubSeq(stepped.event_buffer,
                               Len(event_buffer) + 1, Len(stepped.event_buffer)))
                    \o Tagged("collisions", SubSeq(collided.event_buffer,
                               Len(stepped.event_buffer) + 1,
                               Len(collided.event_buffer))),
                    <<>>)
             /\ UNCHANGED <<has_focus, input_controller, reset_balance>>

\* draw, playing the sounds without draining the buffer
draw_without_drain ==
    LET sounds == play_sounds(event_buffer)
    IN  /\ event_buffer' = event_buffer
        /\ last' = Call("draw", <<"play_sounds", "render_game">>, <<>>, sounds.played)
        /\ UNCHANGED <<has_focus, game_state, time_controller, input_controller,
                       reset_balance>>

\* EventHandler::draw
draw ==
    LET sounds == play_sounds(event_buffer)
    IN  /\ event_buffer' = sounds.event_buffer
        /\ last' = Call("draw", <<"play_sounds", "render_game">>, <<>>, sounds.played)
        /\ UNCHANGED <<has_focus, game_state, time_controller, input_controller,
                       reset_balance>>

\* key_down_event, forwarding the press as a toggle of the held state
key_down_event_toggling(keycode, keymod, repeat, rng) ==
    LET restart == game_state.message # NoMessage
        fresh == reset(time_controller, game_state, event_buffer, rng)
        held == KeyAction(keycode) \in actions(input_controller)
    IN  /\ IF restart
           THEN /\ Len(fresh.event_buffer) <= MaxBuf
                /\ time_controller' = fresh.time_controller
                /\ game_state' = fresh.game_state
                /\ event_buffer' = fresh.event_buffer
                /\ reset_balance' = reset_balance
                       + Count(fresh.calls, "time_controller.reset")
                       - Count(fresh.calls, "game_state.reset")
           ELSE UNCHANGED <<time_controller, game_state, event_buffer, reset_balance>>
        /\ input_controller' = IF held
                               THEN key_release(input_controller, keycode, keymod)
                               ELSE key_press(input_controller, keycode, keymod)
        /\ last' = Call("key_down_event",
               (IF restart THEN fresh.calls ELSE <<>>)
               \o <<IF held THEN "key_release" ELSE "key_press">>,
               IF restart
               THEN Tagged("driver", SubSeq(fresh.event_buffer,
                        Len(event_buffer) + 1, Len(fresh.event_buffer)))
               ELSE <<>>,
               <<>>)
        /\ UNCHANGED has_focus

\* key_down_event, the restart consuming the key press
key_down_event_consuming(keycode, keymod, repeat, rng) ==
    LET restart == game_state.message # NoMessage
        fresh == reset(time_controller, game_state, event_buffer, rng)
    IN  /\ IF restart
           THEN /\ Len(fresh.event_buffer) <= MaxBuf
                /\ time_controller' = fresh.time_controller
                /\ game_state' = fresh.game_state
                /\ event_buffer' = fresh.event_buffer
                /\ reset_balance' = reset_balance
                       + Count(fresh.calls, "time_controller.reset")
                       - Count(fresh.calls, "game_state.reset")
                /\ input_controller' = input_controller
           ELSE /\ UNCHANGED <<time_controller, game_state, event_buffer, reset_balance>>
                /\ input_controller' = key_press(input_controller, keycode, keymod)
        /\ last' = Call("key_down_event",
               IF restart THEN fresh.calls ELSE <<"key_press">>,
               IF restart
               THEN Tagged("driver", SubSeq(fresh.event_buffer,
                        Len(event_buffer) + 1, Len(fresh.event_buffer)))
               ELSE <<>>,
               <<>>)
        /\ UNCHANGED has_focus

\* key_down_event, not restarting on an auto-repeated press
key_down_event_ignoring_repeat(keycode, keymod, repeat, rng) ==
    LET restart == game_state.message # NoMessage /\ ~repeat
        fresh == reset(time_controller, game_state, event_buffer, rng)
    IN  /\ IF restart
           THEN /\ Len(fresh.event_buffer) <= MaxBuf
                /\ time_controller' = fresh.time_controller
                /\ game_state' = fresh.game_state
                /\ event_buffer' = fresh.event_buffer
                /\ reset_balance' = reset_balance
                       + Count(fresh.calls, "time_controller.reset")
                       - Count(fresh.calls, "game_state.reset")
           ELSE UNCHANGED <<time_controller, game_state, event_buffer, reset_balance>>
        /\ input_controller' = key_press(input_controller, keycode, keymod)
        /\ last' = Call("key_down_event",
               (IF restart THEN fresh.calls ELSE <<>>) \o <<"key_press">>,
               IF restart
               THEN Tagged("driver", SubSeq(fresh.event_buffer,
                        Len(event_buffer) + 1, Len(fresh.event_buffer)))
               ELSE <<>>,
               <<>>)
        /\ UNCHANGED has_focus

\* EventHandler::key_down_event
key_down_event(keycode, keymod, repeat, rng) ==
    LET restart == game_state.message # NoMessage
        fresh == reset(time_controller, game_state, event_buffer, rng)
    IN  /\ IF restart
           THEN /\ Len(fresh.event_buffer) <= MaxBuf
                /\ time_controller' = fresh.time_controller
                /\ game_state' = fresh.game_state
                /\ event_buffer' = fresh.event_buffer
                /\ reset_balance' = reset_balance
                       + Count(fresh.calls, "time_controller.reset")
                       - Count(fresh.calls, "game_state.reset")
           ELSE UNCHANGED <<time_controller, game_state, event_buffer, reset_balance>>
        /\ input_controller' = key_press(input_controller, keycode, keymod)
        /\ last' = Call("key_down_event",
               (IF restart THEN fresh.calls ELSE <<>>) \o <<"key_press">>,
               IF restart
               THEN Tagged("driver", SubSeq(fresh.event_buffer,
                        Len(event_buffer) + 1, Len(fresh.event_buffer)))
               ELSE <<>>,
               <<>>)
        /\ UNCHANGED has_focus

\* key_up_event, not forwarding the release
key_up_event_dropped(keycode, keymod, repeat) ==
    /\ input_controller' = input_controller
    /\ last' = Call("key_up_event", <<>>, <<>>, <<>>)
    /\ UNCHANGED <<has_focus, game_state, time_controller, event_buffer,
                   reset_balance>>

\* key_up_event, restarting the game as a key press does
key_up_event_restarting(keycode, keymod, repeat) ==
    LET restart == game_state.message # NoMessage
        fresh == reset(time_controller, game_state, event_buffer, <<0, 0>>)
    IN  /\ IF restart
           THEN /\ Len(fresh.event_buffer) <= MaxBuf
                /\ time_controller' = fresh.time_controller
                /\ game_state' = fresh.game_state
                /\ event_buffer' = fresh.event_buffer
           ELSE UNCHANGED <<time_controller, game_state, event_buffer>>
        /\ input_controller' = key_release(input_controller, keycode, keymod)
        /\ last' = Call("key_up_event",
               (IF restart THEN fresh.calls ELSE <<>>) \o <<"key_release">>,
               IF restart THEN Tagged("driver", <<"GameStart">>) ELSE <<>>,
               <<>>)
        /\ UNCHANGED <<has_focus, reset_balance>>

\* EventHandler::key_up_event
key_up_event(keycode, keymod, repeat) ==
    /\ input_controller' = key_release(input_controller, keycode, keymod)
    /\ last' = Call("key_up_event", <<"key_release">>, <<>>, <<>>)
    /\ UNCHANGED <<has_focus, game_state, time_controller, event_buffer,
                   reset_balance>>

\* focus_event, flipping the flag instead of storing the argument
focus_event_toggling(gained) ==
    /\ has_focus' = ~has_focus
    /\ last' = Call("focus_event", <<>>, <<>>, <<>>)
    /\ UNCHANGED <<game_state, time_controller, input_controller, event_buffer,
                   reset_balance>>

\* EventHandler::focus_event
focus_event(gained) ==
    /\ has_focus' = gained
    /\ last' = Call("focus_event", <<>>, <<>>, <<>>)
    /\ UNCHANGED <<game_state, time_controller, input_controller, event_buffer,
                   reset_balance>>

(***************************************************************************)
(* The event loop (ggez::event::run, called from main): after new, the     *)
(* callbacks in any order.  Here hist holds the key, the modifiers and the  *)
(* auto-repeat flag of the callback that ran last, when that was a key     *)
(* press, and its argument, when that was a focus event.                   *)
(***************************************************************************)
KeyInput(keycode, flags) ==
    [key |-> keycode, keymod |-> flags[1], repeat |-> flags[2]]

Init == (\E rng \in Placements : new(rng)) /\ hist = <<>>

Update ==
    /\ \E delta \in Deltas, resulting \in Resulting :
          \E rng \in Draws(time_controller.spawn_timer + delta >= SpawnPeriod) :
              update(delta, rng, resulting)
    /\ hist' = <<>>

Draw == draw /\ hist' = <<>>

KeyDown ==
    \E keycode \in DriverKeys, flags \in KeyFlags :
        /\ \E rng \in Draws(game_state.message # NoMessage) :
              key_down_event(keycode, flags[1], flags[2], rng)
        /\ hist' = <<KeyInput(keycode, flags)>>

KeyUp ==
    \E keycode \in DriverKeys, flags \in KeyFlags :
        /\ key_up_event(keycode, flags[1], flags[2])
        /\ hist' = <<>>

Focus ==
    \E gained \in BOOLEAN :
        /\ focus_event(gained)
        /\ hist' = <<[gained |-> gained]>>

Next == Update \/ Draw \/ KeyDown \/ KeyUp \/ Focus

Spec == Init /\ [][Next]_vars

(***************************************************************************)
(* The input scenario: after new, key presses and releases only, over all  *)
(* the keys.  The history variable hist keeps the two most recent key      *)
(* callbacks, each with the set of active actions it found.                *)
(***************************************************************************)
KeyCall(op, keycode) ==
    [op |-> op, key |-> keycode, before |-> actions(input_controller)]

Recent(h) == IF Len(h) > 2 THEN Tail(h) ELSE h

KeyDownInput ==
    \E keycode \in Keys, flags \in KeyFlags :
        /\ \E rng \in Draws(game_state.message # NoMessage) :
              key_down_event(keycode, flags[1], flags[2], rng)
        /\ hist' = Recent(Append(hist, KeyCall("key_down_event", keycode)))

KeyUpInput ==
    \E keycode \in Keys, flags \in KeyFlags :
        /\ key_up_event(keycode, flags[1], flags[2])
        /\ hist' = Recent(Append(hist, KeyCall("key_up_event", keycode)))

NextInput == KeyDownInput \/ KeyUpInput

SpecInput == Init /\ [][NextInput]_vars

(***************************************************************************)
(* Properties                                                              *)
(***************************************************************************)
Restarted(call) ==
    call.op = "key_down_event" /\ Count(call.calls, "game_state.reset") > 0

FullUpdate == <<"actions", "update_seconds", "handle_collisions">>

\* C1: an update that runs while has_focus is false invokes neither the time
\* controller nor the collisions controller and leaves the game state, the
\* time controller, the input controller and the event buffer as they were.
C1_UnfocusedUpdateChangesNothing ==
    [][(~has_focus /\ last'.op = "update")
        => /\ last'.calls = <<>>
           /\ last'.appended = <<>>
           /\ UNCHANGED <<game_state, time_controller, input_controller,
                          event_buffer>>]_vars

\* an unfocused update has run on a game in progress, with events waiting
C1_Witness ==
    /\ last.op = "update"
    /\ ~has_focus
    /\ event_buffer # <<>>
    /\ game_state.obstacles # <<>>
    /\ actions(input_controller) # {}

\* C2: while has_focus is false no callback among update, draw,
\* key_down_event and key_up_event changes the game state, the time
\* controller or the set of active actions.
C2_PausedChangesNothing ==
    [][(~has_focus
        /\ last'.op \in {"update", "draw", "key_down_event", "key_up_event"})
        => /\ game_state' = game_state
           /\ time_controller' = time_controller
           /\ actions(input_controller') = actions(input_controller)]_vars

\* C3: a focused update takes the action snapshot, runs the time step, then
\* exactly one collision pass on the state the time step produced; no
\* collision pass runs without the time step right before it, and no update
\* drains the event buffer.
C3_UpdateIsSequential ==
    [][/\ \A i \in 1..Len(last'.calls) :
             last'.calls[i] = "handle_collisions"
                 => i > 1 /\ last'.calls[i - 1] = "update_seconds"
       /\ last'.op = "update" => Count(last'.calls, "play_sounds") = 0
       /\ (has_focus /\ last'.op = "update")
             => /\ last'.calls = FullUpdate
                /\ \E delta \in Deltas, rng \in Placements, resulting \in Resulting :
                      LET stepped == update_seconds(delta,
                                         actions(input_controller), game_state,
                                         time_controller, event_buffer, rng,
                                         resulting)
                          collided == handle_collisions(stepped.game_state,
                                         stepped.time_controller,
                                         stepped.event_buffer)
                      IN  /\ game_state' = collided.game_state
                          /\ time_controller' = collided.time_controller
                          /\ event_buffer' = collided.event_buffer]_vars

\* a focused update in which the time step and the collision pass both
\* appended an event
C3_Witness ==
    /\ last.op = "update"
    /\ has_focus
    /\ last.calls = FullUpdate
    /\ \E i, j \in 1..Len(last.appended) :
          last.appended[i][1] = "time" /\ last.appended[j][1] = "collisions"

\* C4: a key press that arrives while the message is set leaves the message
\* cleared and the timers zeroed, and appends exactly one GameStart to the
\* event buffer.
C4_KeyPressRestarts ==
    [][(game_state.message # NoMessage /\ last'.op = "key_down_event")
        => /\ game_state'.message = NoMessage
           /\ time_controller'.spawn_timer = 0
           /\ last'.calls = <<"time_controller.reset", "game_state.reset",
                              "key_press">>
           /\ last'.appended = <<<<"driver", "GameStart">>>>
           /\ event_buffer' = Append(event_buffer, "GameStart")]_vars

\* a key press has restarted the game while earlier events were waiting
C4_Witness ==
    /\ Restarted(last)
    /\ game_state.message = NoMessage
    /\ Len(event_buffer) >= 2

\* C5 as stated: after a reset the game state and the timers are as after
\* new, and at the first update after it the event buffer contains exactly
\* one GameStart, appended by that update.
C5_GameStartComesWithNextUpdate ==
    [][/\ Restarted(last')
          => /\ \E rng \in Placements : game_state' = GameState_new(rng)
             /\ time_controller' = TimeController_new
       /\ (Restarted(last) /\ has_focus /\ last'.op = "update")
          => /\ Count(event_buffer', "GameStart") = 1
             /\ Count(Untagged(last'.appended), "GameStart") = 1]_vars

\* C5, amended: after a reset the game state and the timers are as after
\* new (up to the random placement), and the reset itself has appended
\* exactly one GameStart, behind the events already waiting in the buffer.
C5_ResetRestoresNewAndAnnounces ==
    [][Restarted(last')
        => /\ \E rng \in Placements : game_state' = GameState_new(rng)
           /\ time_controller' = TimeController_new
           /\ event_buffer' = event_buffer \o <<"GameStart">>
           /\ Count(Untagged(last'.appended), "GameStart") = 1]_vars

\* a reset has run while the GameStart of an earlier restart was still
\* waiting in the buffer
C5_Witness ==
    /\ Restarted(last)
    /\ Count(event_buffer, "GameStart") >= 2
    /\ game_state \in {GameState_new(rng) : rng \in Placements}

\* C6: the time-controller reset and the game-state reset always come
\* together: as many of the one as of the other, the second right after the
\* first, nothing in between.
C6_ResetsComeTogether ==
    /\ reset_balance = 0
    /\ \A i \in 1..Len(last.calls) :
          /\ last.calls[i] = "time_controller.reset"
                => i < Len(last.calls) /\ last.calls[i + 1] = "game_state.reset"
          /\ last.calls[i] = "game_state.reset"
                => i > 1 /\ last.calls[i - 1] = "time_controller.reset"

\* a restart has run the two resets, once each
C6_Witness ==
    /\ Restarted(last)
    /\ Count(last.calls, "time_controller.reset") = 1
    /\ time_controller.spawn_timer = 0

\* the tags of a callback's appended events, in order
Sources(tagged) == [i \in 1..Len(tagged) |-> tagged[i][1]]

\* C7: between two drains the buffer only grows at its end: any callback
\* other than draw leaves the earlier contents as a prefix, what it appends
\* is added in order and in full (a repeated event is kept), and within one
\* update the events of the time step precede those of the collision pass.
C7_BufferIsAppendOnly ==
    [][last'.op # "draw"
        => /\ IsPrefix(event_buffer, event_buffer')
           /\ event_buffer' = event_buffer \o Untagged(last'.appended)
           /\ \A i, j \in 1..Len(last'.appended) :
                 (last'.appended[i][1] = "collisions"
                  /\ last'.appended[j][1] = "time") => j < i]_vars

\* an update has appended an event of the time step and, behind it, an
\* event of the collision pass, to a buffer that held an event already
C7_Witness ==
    /\ last.op = "update"
    /\ Sources(last.appended) = <<"time", "collisions">>
    /\ Len(event_buffer) = Len(last.appended) + 1
    /\ IsPrefix(Untagged(last.appended), Tail(event_buffer))

C9_KeyPressIsIdempotent ==
    [][LET call == hist'[Len(hist')]
           action == KeyAction(call.key)
       IN  /\ call.before = actions(input_controller)
           /\ (call.op = "key_down_event" /\ action \in Actions)
                 => /\ action \in actions(input_controller')
                    /\ actions(input_controller')
                          = actions(input_controller) \cup {action}
           /\ \A a \in Actions :
                 (a \in actions(input_controller)
                  /\ a \notin actions(input_controller'))
                    => call.op = "key_up_event" /\ action = a]_vars

\* a key was pressed again while held, and its action is still active
C9_Witness ==
    /\ Len(hist) = 2
    /\ hist[1].op = "key_down_event"
    /\ hist[2].op = "key_down_event"
    /\ hist[1].key = hist[2].key
    /\ KeyAction(hist[2].key) \in hist[2].before
    /\ KeyAction(hist[2].key) \in actions(input_controller)

\* a key press followed at once by the release of the same key
PressThenRelease ==
    /\ Len(hist) = 2
    /\ hist[1].op = "key_down_event"
    /\ hist[2].op = "key_up_event"
    /\ hist[1].key = hist[2].key

\* C10 as stated: a key press followed at once by the release of the same
\* key leaves the set of active actions as it was before the press, also
\* when the key was held already.
C10_PressReleaseRestores ==
    PressThenRelease => actions(input_controller) = hist[1].before

\* C10, amended: a key press followed at once by the release of the same
\* key leaves the set of active actions as it was before the press when the
\* action of the key was not active before the press; when it was, the
\* pair leaves that action released.
C10_PressReleaseRestoresUnheld ==
    PressThenRelease
        => /\ KeyAction(hist[1].key) \notin hist[1].before
                => actions(input_controller) = hist[1].before
           /\ KeyAction(hist[1].key) \in hist[1].before
                => actions(input_controller)
                      = hist[1].before \ {KeyAction(hist[1].key)}

\* a key that was not held has been pressed and released while other keys
\* are held
C10_Witness ==
    /\ PressThenRelease
    /\ KeyAction(hist[1].key) \in Actions
    /\ KeyAction(hist[1].key) \notin hist[1].before
    /\ hist[1].before # {}
    /\ actions(input_controller) = hist[1].before

(***************************************************************************)
(* The collision pass on its own: the call of handle_collisions in update  *)
(* (src/main.rs, line 102), applied once to every game state a time step   *)
(* can hand over, within the bounds.  hist keeps the game state the pass   *)
(* was given.                                                              *)
(***************************************************************************)
SeqsUpTo(S, n) == UNION {[1..k -> S] : k \in 0..n}

\* the game states a time step can hand to the collision pass
PassStates ==
    {[player |-> p, obstacles |-> o, projectiles |-> q,
      score |-> 0, message |-> NoMessage] :
        p \in Positions,
        o \in SeqsUpTo(Positions, MaxObstacles),
        q \in SeqsUpTo(Positions, MaxProjectiles)}

InitCollide ==
    /\ has_focus = TRUE
    /\ game_state \in PassStates
    /\ time_controller \in [spawn_timer : 0..(SpawnPeriod - 1)]
    /\ input_controller = InputController_new
    /\ event_buffer = <<>>
    /\ last = Call("new", <<>>, <<>>, <<>>)
    /\ reset_balance = 0
    /\ hist = <<>>

\* the call at line 102 of update
collide ==
    LET collided == handle_collisions(game_state, time_controller, event_buffer)
    IN  /\ last.op = "new"
        /\ game_state' = collided.game_state
        /\ time_controller' = collided.time_controller
        /\ event_buffer' = collided.event_buffer
        /\ last' = Call("handle_collisions", <<"handle_collisions">>,
               Tagged("collisions", SubSeq(collided.event_buffer,
                          Len(event_buffer) + 1, Len(collided.event_buffer))),
               <<>>)
        /\ hist' = <<game_state>>
        /\ UNCHANGED <<has_focus, input_controller, reset_balance>>

SpecCollide == InitCollide /\ [][collide]_vars

\* the number of elements of s that overlap p
RECURSIVE Overlapping(_, _)
Overlapping(s, p) ==
    IF s = <<>> THEN 0
    ELSE (IF Overlap(Head(s), p) THEN 1 ELSE 0) + Overlapping(Tail(s), p)

\* C11: in one collision pass no entity is resolved by more than one
\* collision: every removed projectile took exactly one obstacle with it and
\* scored once, every removed obstacle was removed by one collision only (a
\* projectile's or the player's, one Collision event each), and no entity
\* is present more often after the pass than before.
C11_NoEntityResolvedTwice ==
    [][last'.op = "handle_collisions"
        => LET shot == Len(game_state.projectiles) - Len(game_state'.projectiles)
               gone == Len(game_state.obstacles) - Len(game_state'.obstacles)
               events == Untagged(last'.appended)
           IN  /\ shot >= 0 /\ gone >= shot
               /\ game_state'.score = game_state.score + shot
               /\ Count(events, "ScoreChange") = shot
               /\ Count(events, "Collision") = gone
               /\ (game_state'.message = GameOver) <=> (gone > shot)
               /\ \A p \in Positions :
                     /\ Overlapping(game_state'.obstacles, p)
                           <= Overlapping(game_state.obstacles, p)
                     /\ Overlapping(game_state'.projectiles, p)
                           <= Overlapping(game_state.projectiles, p)]_vars

\* a pass was given an obstacle that overlapped a projectile and the player
\* at once, and resolved it once, with the projectile
C11_Witness ==
    /\ last.op = "handle_collisions"
    /\ Len(hist) = 1
    /\ Overlapping(hist[1].obstacles, hist[1].player) = 1
    /\ Overlapping(hist[1].projectiles, hist[1].player) = 1
    /\ game_state.obstacles = <<>>
    /\ game_state.score = 1
    /\ game_state.message = NoMessage
    /\ Untagged(last.appended) = <<"Collision", "ScoreChange">>

(***************************************************************************)
(* One update on its own: update (src/main.rs, lines 86-105) applied once, *)
(* with every delta and every random draw, to the states a game can be in  *)
(* before its first spawn: any set of held actions, the player placed      *)
(* anywhere in the arena, any timer.  hist keeps the game state the update *)
(* started from.                                                           *)
(***************************************************************************)
StepStates == {GameState_new(rng) : rng \in Positions}

InitStep ==
    /\ has_focus = TRUE
    /\ game_state \in StepStates
    /\ time_controller \in [spawn_timer : 0..(SpawnPeriod - 1)]
    /\ input_controller \in [Actions -> BOOLEAN]
    /\ event_buffer = <<>>
    /\ last = Call("new", <<>>, <<>>, <<>>)
    /\ reset_balance = 0
    /\ hist = <<>>

Step ==
    /\ last.op = "new"
    /\ \E delta \in Deltas :
          \E rng \in (IF time_controller.spawn_timer + delta >= SpawnPeriod
                      THEN Positions ELSE {<<0, 0>>}) :
              update(delta, rng, <<>>)
    /\ hist' = <<game_state>>

SpecStep == InitStep /\ [][Step]_vars

InArena(pos) == pos[1] \in 0..Width /\ pos[2] \in 0..Height

\* C12: after any update every entity position lies inside the arena
\* [0, Width] x [0, Height].
C12_EntitiesStayInArena ==
    last.op = "update"
        => /\ InArena(game_state.player)
           /\ \A i \in 1..Len(game_state.obstacles) :
                 InArena(game_state.obstacles[i])
           /\ \A i \in 1..Len(game_state.projectiles) :
                 InArena(game_state.projectiles[i])

\* an update has moved the player up along the right edge while the action
\* to move right was active, and a projectile was fired there
C12_Witness ==
    /\ last.op = "update"
    /\ Len(hist) = 1
    /\ hist[1].player = <<Width, 0>>
    /\ actions(input_controller) = {"MoveRight", "MoveUp", "Fire"}
    /\ game_state.player = <<Width, 1>>
    /\ game_state.projectiles = <<game_state.player>>

(***************************************************************************)
(* The message of the game state                                           *)
(***************************************************************************)
CollisionEvents(call) ==
    Untagged(SelectSeq(call.appended, LAMBDA t : t[1] = "collisions"))

\* C13: the message goes from none to set only inside the collision pass of
\* an update, on a collision that scores nothing; it goes from set to none
\* only inside the reset of a key press; update, draw, key release and focus
\* callbacks leave a set message as it is.
C13_MessageChangesOnEdgesOnly ==
    [][/\ (game_state.message = NoMessage /\ game_state'.message # NoMessage)
            => /\ last'.op = "update"
               /\ last'.calls = FullUpdate
               /\ Count(CollisionEvents(last'), "Collision")
                    > Count(CollisionEvents(last'), "ScoreChange")
       /\ (game_state.message # NoMessage /\ game_state'.message = NoMessage)
            => Restarted(last')
       /\ (game_state.message # NoMessage
            /\ last'.op \in {"update", "draw", "key_up_event", "focus_event"})
            => game_state'.message = game_state.message]_vars

\* a key was released while the message was set, and the message is still set
C13_Witness ==
    /\ last.op = "key_up_event"
    /\ game_state.message = GameOver
    /\ has_focus

C16_ResetKeepsTheRest ==
    [][/\ Restarted(last')
            => /\ has_focus' = has_focus
               /\ event_buffer' = Append(event_buffer, "GameStart")
               /\ input_controller'
                     = key_press(input_controller, hist'[1].key, hist'[1].keymod)
               /\ actions(input_controller) \subseteq actions(input_controller')
               /\ KeyAction(hist'[1].key) \in Actions
                     => KeyAction(hist'[1].key) \in actions(input_controller')
       /\ (Restarted(last) /\ last'.calls = FullUpdate /\ hist[1].key = "Space")
            => (game_state'.projectiles # <<>> \/ game_state'.score > game_state.score)
      ]_vars

\* a press of the fire key restarted the game while another event was still
\* waiting in the buffer and the window had no focus
C16_Witness ==
    /\ Restarted(last)
    /\ hist[1].key = "Space"
    /\ ~has_focus
    /\ Len(event_buffer) >= 2
    /\ event_buffer[Len(event_buffer)] = "GameStart"
    /\ "Fire" \in actions(input_controller)

ResetRan(call) ==
    \/ Count(call.calls, "game_state.reset") > 0
    \/ Count(call.calls, "time_controller.reset") > 0
    \/ Count(call.appended, <<"driver", "GameStart">>) > 0

\* C17: only a key press resets; every key press while the message is set
\* does, whatever the key, the modifiers, the auto-repeat flag and has_focus
\* are; a key release resets nothing and appends nothing; a key press while
\* the message is not set, as right after a restart, does not reset.
C17_OnlyKeyPressRestarts ==
    [][/\ ResetRan(last') => last'.op = "key_down_event"
       /\ (last'.op = "key_down_event" /\ game_state.message # NoMessage)
            => /\ Restarted(last')
               /\ game_state'.message = NoMessage
       /\ last'.op = "key_up_event"
            => /\ ~ResetRan(last')
               /\ last'.appended = <<>>
               /\ UNCHANGED <<game_state, time_controller, event_buffer>>
       /\ (last'.op = "key_down_event" /\ game_state.message = NoMessage)
            => /\ ~ResetRan(last')
               /\ UNCHANGED <<game_state, time_controller, event_buffer>>
       /\ (Restarted(last) /\ last'.op = "key_down_event")
            => ~ResetRan(last')]_vars

\* an auto-repeated press of a key that stands for no action, with a
\* modifier held and the window out of focus, has restarted the game
C17_Witness ==
    /\ Restarted(last)
    /\ hist[1] = KeyInput("Q", <<"LSHIFT", TRUE>>)
    /\ ~has_focus
    /\ game_state.message = NoMessage

\* C18: has_focus is true after new; a focus_event stores its argument in
\* has_focus and changes nothing else; every other callback leaves has_focus
\* as it was.  Hence has_focus is always the argument of the most recent
\* focus_event.
C18_FocusFollowsFocusEvent ==
    [][/\ last.op = "new" => has_focus
       /\ last'.op = "focus_event"
            => /\ has_focus' = hist'[1].gained
               /\ UNCHANGED <<game_state, time_controller, input_controller,
                              event_buffer>>
       /\ last'.op # "focus_event" => has_focus' = has_focus]_vars

\* the window has lost the focus in the middle of a game, with a key held
\* and an event waiting
C18_Witness ==
    /\ last.op = "focus_event"
    /\ hist[1].gained = FALSE
    /\ ~has_focus
    /\ actions(input_controller) # {}
    /\ event_buffer # <<>>
    /\ game_state.obstacles # <<>>

DriverGameStarts(call) == Count(call.appended, <<"driver", "GameStart">>)

Resets(call) == Count(call.calls, "game_state.reset")

\* C19: the buffer is empty after new, and in every step the number of
\* GameStart events the driver appends, the number of resets it performs and
\* the number of key presses it receives with the message set (one or none)
\* are the same number; so the three totals, which all start at zero, are
\* equal in every reachable state.
C19_GameStartsCountResets ==
    [][/\ last.op = "new" => event_buffer = <<>>
       /\ DriverGameStarts(last') = Resets(last')
       /\ Resets(last') = Count(last'.calls, "time_controller.reset")
       /\ Resets(last')
            = (IF last'.op = "key_down_event" /\ game_state.message # NoMessage
               THEN 1 ELSE 0)
       /\ Count(event_buffer', "GameStart")
            = Count(event_buffer, "GameStart") + Count(Untagged(last'.appended), "GameStart")
              - Count(last'.played, "GameStart")]_vars

\* a restart has appended its one GameStart behind an earlier GameStart and
\* the collision that ended the game
C19_Witness ==
    /\ Restarted(last)
    /\ DriverGameStarts(last) = 1
    /\ event_buffer = <<"GameStart", "Collision", "GameStart">>

(***************************************************************************)
(* Start-up: main (src/main.rs, lines 164-177) from the command line to    *)
(* the event loop.  A command-line argument is a sequence of characters;   *)
(* the character "x" stands for any text that is no part of a number.      *)
(* Here hist holds the command line, program path first, and last the step *)
(* main has reached with the arena size, the exit status and the output so *)
(* far; the five fields of the application state are Absent until          *)
(* ApplicationState::new has built them.                                   *)
(***************************************************************************)
DEFAULT_WIDTH == 1024

DEFAULT_HEIGHT == 600

MaxArgs == 3

MaxDigits == 1

Digits == {"0", "3"}

Chars == Digits \cup {"x"}

Words == SeqsUpTo(Chars, MaxDigits)

Path == <<"x">>

CommandLines == {<<Path>> \o given : given \in SeqsUpTo(Words, MaxArgs)}

Usage == "Usage: ./rocket | ./rocket <width> <height>"

Absent == [absent |-> TRUE]

NoSize == <<>>

DigitValue(c) == IF c = "3" THEN 3 ELSE 0

RECURSIVE Decimal(_)
Decimal(word) ==
    IF word = <<>> THEN 0
    ELSE 10 * Decimal(SubSeq(word, 1, Len(word) - 1)) + DigitValue(word[Len(word)])

\* str::parse::<f32> on a word of decimal digits; an empty word and a word
\* with any other character are errors
parse_f32(word) ==
    IF word # <<>> /\ \A i \in 1..Len(word) : word[i] \in Digits
    THEN [ok |-> TRUE, value |-> Decimal(word)]
    ELSE [ok |-> FALSE, value |-> 0]

Size_new(width, height) == <<width, height>>

\* the arena a game state can be constructed with
ValidArena(size) == size[1] > 0 /\ size[2] > 0

Progress(op, game_size, status, output) ==
    [op |-> op, game_size |-> game_size, status |-> status, output |-> output]

\* Args::parse, falling back to the default size on any other argument count
Args_parse_defaulting(args) ==
    LET given == Tail(args)
    IN  IF Len(given) = 2
        THEN LET width == parse_f32(given[1])
                 height == parse_f32(given[2])
             IN  IF width.ok /\ height.ok
                 THEN Progress("Args::parse", Size_new(width.value, height.value),
                               "running", <<>>)
                 ELSE Progress("Args::parse", NoSize, "panic", <<>>)
        ELSE Progress("Args::parse", Size_new(DEFAULT_WIDTH, DEFAULT_HEIGHT),
                      "running", <<>>)

\* Args::parse
Args_parse(args) ==
    LET given == Tail(args)
    IN  IF Len(given) = 0
        THEN Progress("Args::parse", <<DEFAULT_WIDTH, DEFAULT_HEIGHT>>,
                      "running", <<>>)
        ELSE IF Len(given) = 2
        THEN LET width == parse_f32(given[1])
                 height == parse_f32(given[2])
             IN  IF width.ok /\ height.ok
                 THEN Progress("Args::parse", Size_new(width.value, height.value),
                               "running", <<>>)
                 ELSE Progress("Args::parse", NoSize, "panic", <<>>)
        ELSE Progress("Args::parse", NoSize, "exit 1", <<Usage>>)

InitMain ==
    /\ hist \in {<<args>> : args \in CommandLines}
    /\ last = Progress("main", NoSize, "running", <<>>)
    /\ has_focus = Absent
    /\ game_state = Absent
    /\ time_controller = Absent
    /\ input_controller = Absent
    /\ event_buffer = Absent
    /\ reset_balance = 0

\* let args = Args::parse(std::env::args())
main_parse ==
    /\ last.op = "main"
    /\ last' = Args_parse(hist[1])
    /\ UNCHANGED <<app, reset_balance, hist>>

\* view::init_rendering_ctx(args.game_size).unwrap(): the context is created
\* or the unwrap panics
main_init_rendering_ctx ==
    /\ last.op = "Args::parse"
    /\ last.status = "running"
    /\ \E created \in BOOLEAN :
          last' = [last EXCEPT !.op = "init_rendering_ctx",
                               !.status = IF created THEN "running" ELSE "panic"]
    /\ UNCHANGED <<app, reset_balance, hist>>

\* ApplicationState::new(ctx, args.game_size).unwrap(): the game state is
\* constructed, or the construction faults on an arena without area
main_new ==
    /\ last.op = "init_rendering_ctx"
    /\ last.status = "running"
    /\ IF ValidArena(last.game_size)
       THEN /\ has_focus' = TRUE
            /\ game_state' = GameState_new(<<0, 0>>)
            /\ time_controller' = TimeController_new
            /\ input_controller' = InputController_new
            /\ event_buffer' = <<>>
            /\ last' = [last EXCEPT !.op = "ApplicationState::new"]
       ELSE /\ UNCHANGED app
            /\ last' = [last EXCEPT !.op = "ApplicationState::new",
                                    !.status = "panic"]
    /\ UNCHANGED <<reset_balance, hist>>

\* event::run(ctx, state)
main_run ==
    /\ last.op = "ApplicationState::new"
    /\ last.status = "running"
    /\ last' = [last EXCEPT !.op = "event::run"]
    /\ UNCHANGED <<app, reset_balance, hist>>

NextMain == main_parse \/ main_init_rendering_ctx \/ main_new \/ main_run

SpecMain == InitMain /\ [][NextMain]_vars

Created == game_state # Absent

\* C20: misuse fails before the event loop starts.  With no argument the
\* arena is 1024 x 600; with two it is the parsed width and height; with any
\* other number of arguments the usage text is printed and the process exits
\* with status 1, no application state having been created; an arena without
\* area is rejected when the application state is constructed; the event
\* loop is entered only with an application state over an arena with area.
C20_MisuseFailsBeforeTheLoop ==
    LET given == Tail(hist[1])
    IN  /\ (last.op # "main" /\ Len(given) = 0)
             => last.game_size = <<1024, 600>>
        /\ (last.op # "main" /\ Len(given) = 2)
             => IF parse_f32(given[1]).ok /\ parse_f32(given[2]).ok
                THEN last.game_size
                        = <<parse_f32(given[1]).value, parse_f32(given[2]).value>>
                ELSE last.op = "Args::parse" /\ last.status = "panic" /\ ~Created
        /\ (last.op # "main" /\ Len(given) \notin {0, 2})
             => /\ last.op = "Args::parse"
                /\ last.status = "exit 1"
                /\ last.output = <<Usage>>
                /\ ~Created
        /\ (last.game_size # NoSize /\ ~ValidArena(last.game_size))
             => /\ ~Created
                /\ last.op # "event::run"
                /\ last.op = "ApplicationState::new" => last.status = "panic"
        /\ Created => last.op \in {"ApplicationState::new", "event::run"}
        /\ last.op = "event::run"
             => Created /\ last.status = "running" /\ ValidArena(last.game_size)

\* the command line "3 0" was parsed to an arena 3 wide and 0 high, and the
\* construction of the application state has rejected it
C20_Witness ==
    /\ hist = <<<<Path, <<"3">>, <<"0">>>>>>
    /\ last.op = "ApplicationState::new"
    /\ last.game_size = <<3, 0>>
    /\ last.status = "panic"
    /\ ~Created

====
